---- MODULE Spec2Model ----
(***************************************************************************)
(* Model of the PPO training core (reinforcement_learning/ppo_agent.py)    *)
(* and of the policy-composition layer                                     *)
(* (reinforcement_learning/multi_policy.py).                               *)
(*                                                                         *)
(* Tensors are abstracted: a network is its list of layers, each layer a   *)
(* shape and one integer standing for its weights; a probability is the    *)
(* pair <<numerator, denominator>>, which determines its logarithm; a      *)
(* gradient step changes every layer.  Floating-point effects (rounding,   *)
(* NaN) are outside the model.                                             *)
(***************************************************************************)
EXTENDS Integers, Sequences, FiniteSets, TLC

\* ------------------------------------------------------------------ bounds
MaxHandle == 1      \* agent handles are 0..MaxHandle
MaxTrans == 2       \* transitions buffered in one Trajectory Store
MaxLen == 3         \* length of a trajectory given to the return computation
MaxReward == 2      \* rewards are 0..MaxReward
StateSize == 1      \* state_size given to MultiPolicy
ActionSize == 2     \* action_size given to MultiPolicy and PPOAgent
MaxWeight == 31     \* a training pass starts only while every weight is below it

\* ------------------------------------------------------- program constants
K_epoch == 30       \* PPOAgent.K_epoch
hidsize1 == 128     \* ActorCriticModel hidden widths
hidsize2 == 128

Agents == {"A", "B"}            \* PPOAgent instances; "A" is MultiPolicy.ppo_policy
Handles == 0 .. MaxHandle
Actions == 0 .. (ActionSize - 1)
Rewards == 0 .. MaxReward

RECURSIVE SumSeq(_)
SumSeq(s) == IF s = <<>> THEN 0 ELSE Head(s) + SumSeq(Tail(s))

\* Raw environment states: vectors of length StateSize (all-0 and all-1).
RawStates == {[i \in 1 .. StateSize |-> v] : v \in {0, 1}}

\* ------------------------------------------------------------ DataBuffers
\* DataBuffers.reset: self.memory = {}
DB_reset == <<>>

\* Number of transitions held by a store, over all handles.
RECURSIVE CountTrans(_, _)
CountTrans(mem, hs) ==
    IF hs = {} THEN 0
    ELSE LET h == CHOOSE x \in hs : TRUE
         IN  Len(mem[h]) + CountTrans(mem, hs \ {h})

DB_len_Transitions(mem) == CountTrans(mem, DOMAIN mem)

\* DataBuffers.__len__: len(self.memory), the number of keys of the dict
DB_len(mem) == Cardinality(DOMAIN mem)

\* DataBuffers.get_transitions: self.memory.get(handle, [])
DB_get_transitions(mem, handle) ==
    IF handle \in DOMAIN mem THEN mem[handle] ELSE <<>>

DB_push_transition_Front(mem, handle, transition) ==
    LET transitions == <<transition>> \o DB_get_transitions(mem, handle)
    IN  [h \in (DOMAIN mem) \cup {handle} |->
            IF h = handle THEN transitions ELSE mem[h]]

\* DataBuffers.push_transition
DB_push_transition(mem, handle, transition) ==
    LET transitions == Append(DB_get_transitions(mem, handle), transition)
    IN  [h \in (DOMAIN mem) \cup {handle} |->
            IF h = handle THEN transitions ELSE mem[h]]

\* ------------------------------------------------------- ActorCriticModel
\* nn.Sequential(Linear(in, h1), Tanh, Linear(h1, h2), Tanh, Linear(h2, out)):
\* the shapes of the three Linear layers.
LayerShapes(in, out) == << <<in, hidsize1>>, <<hidsize1, hidsize2>>, <<hidsize2, out>> >>

\* A freshly initialised network (random initialisation: seed).
NewActor(state_size, action_size, seed) ==
    [shape |-> LayerShapes(state_size, action_size), w |-> <<seed, seed, seed>>]

NewCritic(state_size, seed) ==
    [shape |-> LayerShapes(state_size, 1), w |-> <<seed + 1, seed + 1, seed + 1>>]

\* Forward pass of a Sequential on one input vector, as one integer.
Forward(net, x) == net.w[1] * SumSeq(x) + net.w[2] + net.w[3]

\* ActorCriticModel.get_actor_dist: Categorical(self.actor(state)), as the
\* unnormalised positive weight of every action.
get_actor_dist(actorNet, state) ==
    [a \in Actions |-> 1 + a + Forward(actorNet, state)]

\* Categorical.log_prob(action): the probability as <<numerator, denominator>>.
log_prob(dist, action) ==
    << dist[action], SumSeq([i \in 1 .. ActionSize |-> dist[i - 1]]) >>

\* One optimizer.step(): every parameter tensor of actor and critic moves.
GradStepNet(net) == [net EXCEPT !.w = <<net.w[1] + 1, net.w[2] + 1, net.w[3] + 1>>]

\* Module.load_state_dict(torch.load(file)) on a network: every layer of the
\* file whose shape matches is copied into the network, layer by layer; a
\* file that is no parameter blob copies nothing.
CopyMatching(net, blob) ==
    IF blob.kind = "net"
    THEN LET copied(i) == IF blob.shape[i] = net.shape[i] THEN blob.w[i] ELSE net.w[i]
         IN  [net EXCEPT !.w = <<copied(1), copied(2), copied(3)>>]
    ELSE net

\* ... and raises (after the copies) unless every layer matched.
NetLoadRaises(net, blob) ==
    \/ blob.kind # "net"
    \/ \E i \in DOMAIN net.w : blob.shape[i] # net.shape[i]

\* ----------------------------------------------------------------- files
\* One base path P; a file is named by its extension.
Exts == {"actor", "value", "critic", "optimizer"}
NoFile == [kind |-> "none"]
\* A file torch.load cannot read.
Garbage == [kind |-> "garbage"]
\* torch.save(net.state_dict(), ...)
NetBlob(net) == [kind |-> "net", shape |-> net.shape, w |-> net.w]
\* torch.save(optimizer.state_dict(), ...)
OptBlob(opt) == [kind |-> "optim", group |-> opt.group, steps |-> opt.steps]

\* --------------------------------------------------------------- PPOAgent
NoLoss == [epoch |-> 0, handle |-> -1]      \* self.loss = 0

\* optim.Adam(self.actor_critic_model.parameters()): one parameter group
\* holding the tensors of actor and critic; no step taken yet.
NewOptimizer(actorNet, criticNet) ==
    [group |-> Len(actorNet.w) + Len(criticNet.w), steps |-> 0]

\* Seed of the random initialisation of each agent.
Seed(a) == IF a = "A" THEN 0 ELSE 5

\* A discounted return is a polynomial in gamma (self.gamma = 0.99) with
\* integer coefficients, c[1] + c[2] * gamma + c[3] * gamma^2 + ..., kept as
\* the sequence of its coefficients without trailing zeros; 0 is <<>>.  Two
\* such polynomials with coefficients below 99 in size have the same value
\* at gamma = 99/100 only if they are the same sequence.
RECURSIVE Norm(_)
Norm(c) == IF c # <<>> /\ c[Len(c)] = 0 THEN Norm(SubSeq(c, 1, Len(c) - 1)) ELSE c

\* reward_i + self.gamma * discounted_reward
Discount(reward, discounted_reward) == Norm(<<reward>> \o discounted_reward)

RECURSIVE ReverseWalk_NoCut(_, _, _, _)
ReverseWalk_NoCut(transitions_array, i, acc, out) ==
    IF i = 0 THEN out
    ELSE LET discounted_reward == Discount(transitions_array[i].reward, acc)
         IN  ReverseWalk_NoCut(transitions_array, i - 1, discounted_reward,
                               <<discounted_reward>> \o out)

\* The reverse walk of _convert_transitions_to_torch_tensors: `i` is the
\* position visited, `acc` the running discounted_reward, `out` the
\* reward_list built so far (by insert(0, ...)).
RECURSIVE ReverseWalk(_, _, _, _)
ReverseWalk(transitions_array, i, acc, out) ==
    IF i = 0 THEN out
    ELSE LET t == transitions_array[i]
             discounted_reward ==
                 IF t.done THEN <<>> ELSE Discount(t.reward, acc)
         IN  ReverseWalk(transitions_array, i - 1, discounted_reward,
                         <<discounted_reward>> \o out)

\* reward_list of _convert_transitions_to_torch_tensors, before it is
\* standardised.
DiscountedReturns(transitions_array) ==
    ReverseWalk(transitions_array, Len(transitions_array), <<>>, <<>>)

TrainHandle_NoSkip(st, mem, epoch, handle) ==
    [actor |-> GradStepNet(st.actor),
     critic |-> GradStepNet(st.critic),
     optimizer |-> [st.optimizer EXCEPT !.steps = @ + 1],
     loss |-> [epoch |-> epoch, handle |-> handle],
     grads |-> [st.grads EXCEPT ![handle] = @ + 1]]

\* The body of the inner loop of train_net for one handle in one epoch.
\* st = [actor, critic, optimizer, loss, grads]; grads counts the
\* optimizer.step() calls made on each handle's trajectory.
TrainHandle(st, mem, epoch, handle) ==
    LET agent_episode_history == DB_get_transitions(mem, handle)
    IN  IF Len(agent_episode_history) > 0
        THEN [actor |-> GradStepNet(st.actor),
              critic |-> GradStepNet(st.critic),
              optimizer |-> [st.optimizer EXCEPT !.steps = @ + 1],
              loss |-> [epoch |-> epoch, handle |-> handle],
              grads |-> [st.grads EXCEPT ![handle] = @ + 1]]
        ELSE st

\* for handle in range(len(self.memory))
HandleRange(mem) == 0 .. (DB_len(mem) - 1)

\* One epoch, from `handle` on: for handle in range(len(self.memory)): ...
RECURSIVE EpochFrom(_, _, _, _)
EpochFrom(st, mem, epoch, handle) ==
    IF handle \notin HandleRange(mem) THEN st
    ELSE LET next == TrainHandle(st, mem, epoch, handle)
         IN  IF next.optimizer.steps >= 0       \* always: a step count
             THEN EpochFrom(next, mem, epoch, handle + 1)
             ELSE st

\* The epochs first .. last in order: for _ in range(self.K_epoch).  The
\* range is split in two halves run one after the other, which keeps the
\* evaluation shallow.
RECURSIVE Epochs(_, _, _, _)
Epochs(st, mem, first, last) ==
    IF first > last THEN st
    ELSE IF first = last THEN EpochFrom(st, mem, first, 0)
    ELSE LET mid == (first + last) \div 2
             half == Epochs(st, mem, first, mid)
         IN  IF half.optimizer.steps >= 0       \* always: a step count
             THEN Epochs(half, mem, mid + 1, last)
             ELSE st

TrainLoop(st, mem) == Epochs(st, mem, 1, K_epoch)

VARIABLES
    memory,     \* memory[a]: the dict of agent a's DataBuffers
    actor,      \* actor[a]: actor_critic_model.actor of agent a
    critic,     \* critic[a]: actor_critic_model.critic
    optimizer,  \* optimizer[a]: the Adam optimizer's state
    loss,       \* loss[a]: self.loss
    fs,         \* fs[ext]: content of the file P + "." + ext
    mpLoss,     \* MultiPolicy.loss
    traj,       \* transitions_array given to _convert_transitions_to_torch_tensors
    rets,       \* the reward_list it computed (before standardisation)
    lastOp      \* the call made last: its arguments, result, and the calls it made

vars == <<memory, actor, critic, optimizer, loss, fs, mpLoss, traj, rets, lastOp>>

\* Size of the state the PPO core is built for: MultiPolicy.__init__ passes
\* state_size + action_size.
CoreStateSize == StateSize + ActionSize

\* PPOAgent.__init__: ActorCriticModel(state_size, action_size)
NewAgentActor(a) == NewActor(CoreStateSize, ActionSize, Seed(a))
NewAgentCritic(a) == NewCritic(CoreStateSize, Seed(a))

PPO_step_mem_Stale(a, handle, state, action, reward, next_state, done) ==
    LET dist == get_actor_dist(NewAgentActor(a), state)
        transition == [state |-> state, action |-> action, reward |-> reward,
                       next_state |-> next_state,
                       logprob |-> log_prob(dist, action), done |-> done]
    IN  DB_push_transition(memory[a], handle, transition)

\* PPOAgent.step: the store after the transition is recorded.
PPO_step_mem(a, handle, state, action, reward, next_state, done) ==
    LET dist == get_actor_dist(actor[a], state)
        action_logprobs == log_prob(dist, action)
        transition == [state |-> state, action |-> action, reward |-> reward,
                       next_state |-> next_state, logprob |-> action_logprobs,
                       done |-> done]
    IN  DB_push_transition(memory[a], handle, transition)

\* The store is bounded.
CanStep(a) == CountTrans(memory[a], DOMAIN memory[a]) < MaxTrans

PPO_step(a, handle, state, action, reward, next_state, done) ==
    /\ CanStep(a)
    /\ memory' = [memory EXCEPT ![a] =
                    PPO_step_mem(a, handle, state, action, reward, next_state, done)]
    /\ lastOp' = [op |-> "step", agent |-> a, handle |-> handle]
    /\ UNCHANGED <<actor, critic, optimizer, loss, fs, mpLoss, traj, rets>>

PPO_act_Learning(a, state) ==
    \E action \in Actions :
        /\ get_actor_dist(actor[a], state)[action] > 0
        /\ actor' = [actor EXCEPT ![a] = GradStepNet(actor[a])]
        /\ lastOp' = [op |-> "act", agent |-> a, state |-> state, ret |-> action]
        /\ UNCHANGED <<memory, critic, optimizer, loss, fs, mpLoss, traj, rets>>

\* PPOAgent.act: dist.sample() returns any action of positive probability.
PPO_act(a, state) ==
    \E action \in Actions :
        /\ get_actor_dist(actor[a], state)[action] > 0
        /\ lastOp' = [op |-> "act", agent |-> a, state |-> state, ret |-> action]
        /\ UNCHANGED <<memory, actor, critic, optimizer, loss, fs, mpLoss, traj, rets>>

PPO_reset_effect_Clear(a) ==
    /\ memory' = [memory EXCEPT ![a] = DB_reset]
    /\ UNCHANGED <<actor, critic, optimizer, loss, fs, mpLoss, traj, rets>>

\* PPOAgent.reset: pass
PPO_reset_effect(a) ==
    UNCHANGED <<memory, actor, critic, optimizer, loss, fs, mpLoss, traj, rets>>

PPO_reset(a) ==
    /\ PPO_reset_effect(a)
    /\ lastOp' = [op |-> "reset", agent |-> a]

\* PPOAgent.train_net: the state after the K_epoch epochs (the store is
\* reset by the caller of this operator, as the last statement of train_net).
train_net(a) ==
    TrainLoop([actor |-> actor[a], critic |-> critic[a],
               optimizer |-> optimizer[a], loss |-> loss[a],
               grads |-> [h \in Handles |-> 0]],
              memory[a])

StoreAfterTraining_Keep(mem) == mem

\* The store after train_net: self.memory.reset()
StoreAfterTraining(mem) == DB_reset

StoreAfterNoTraining_Reset(mem) == DB_reset

\* The store after end_episode(train=False)
StoreAfterNoTraining(mem) == mem

\* The handles train_net visits and finds without transitions.
SkippedHandles(mem) ==
    {h \in HandleRange(mem) : Len(DB_get_transitions(mem, h)) = 0}

\* PPOAgent.end_episode
PPO_end_episode(a, train) ==
    /\ IF train
       THEN LET st == train_net(a)
            IN  /\ actor' = [actor EXCEPT ![a] = st.actor]
                /\ critic' = [critic EXCEPT ![a] = st.critic]
                /\ optimizer' = [optimizer EXCEPT ![a] = st.optimizer]
                /\ loss' = [loss EXCEPT ![a] = st.loss]
                /\ memory' = [memory EXCEPT ![a] = StoreAfterTraining(memory[a])]
                /\ lastOp' = [op |-> "end_episode", agent |-> a, train |-> TRUE,
                              grads |-> st.grads,
                              skipped |-> SkippedHandles(memory[a])]
       ELSE /\ memory' = [memory EXCEPT ![a] = StoreAfterNoTraining(memory[a])]
            /\ UNCHANGED <<actor, critic, optimizer, loss>>
            /\ lastOp' = [op |-> "end_episode", agent |-> a, train |-> FALSE]
    /\ UNCHANGED <<fs, mpLoss, traj, rets>>

\* The weights grow with every training pass: passes are bounded through them.
CanTrain(a) ==
    \A i \in 1 .. 3 : actor[a].w[i] < MaxWeight /\ critic[a].w[i] < MaxWeight

EndEpisode(a) ==
    \E train \in BOOLEAN :
        /\ train => CanTrain(a)
        /\ PPO_end_episode(a, train)

\* ------------------------------------------------------------ checkpoints
\* Extension ActorCriticModel.save gives the critic's file.
CriticSaveExt == "value"
\* Extension ActorCriticModel.load reads the critic from.
CriticLoadExt == "critic"
ActorSaveExt == "actor"
ActorLoadExt_Critic == "critic"
\* Extension ActorCriticModel.load reads the actor from.
ActorLoadExt == "actor"

\* ActorCriticModel.save and PPOAgent.save
PPO_save_effect(a) ==
    /\ fs' = [fs EXCEPT ![ActorSaveExt] = NetBlob(actor[a]),
                        ![CriticSaveExt] = NetBlob(critic[a]),
                        !["optimizer"] = OptBlob(optimizer[a])]
    /\ UNCHANGED <<memory, actor, critic, optimizer, loss, mpLoss, traj, rets>>

PPO_save(a) ==
    /\ PPO_save_effect(a)
    /\ lastOp' = [op |-> "save", agent |-> a]

\* ActorCriticModel._load on a network: the network afterwards.
Model_load(net, blob) ==
    IF blob = NoFile THEN net ELSE CopyMatching(net, blob)

\* Optimizer.load_state_dict raises, before it changes anything, unless the
\* file is an optimizer state with parameter groups of the same sizes.
OptLoadRaises(opt, blob) == blob.kind # "optim" \/ blob.group # opt.group

\* PPOAgent._load on the optimizer: the optimizer afterwards.
Optimizer_load(opt, blob) ==
    IF blob = NoFile \/ OptLoadRaises(opt, blob) THEN opt
    ELSE [group |-> blob.group, steps |-> blob.steps]

\* The artifacts for which _load printed " >> failed!".
LoadFailed(a) ==
    {e \in {ActorLoadExt} : fs[e] # NoFile /\ NetLoadRaises(actor[a], fs[e])}
    \cup {e \in {CriticLoadExt} : fs[e] # NoFile /\ NetLoadRaises(critic[a], fs[e])}
    \cup {e \in {"optimizer"} : fs[e] # NoFile /\ OptLoadRaises(optimizer[a], fs[e])}

\* ActorCriticModel.load and PPOAgent.load; the bare except swallows every
\* exception, so the call always returns.
PPO_load_effect(a) ==
    /\ actor' = [actor EXCEPT ![a] = Model_load(actor[a], fs[ActorLoadExt])]
    /\ critic' = [critic EXCEPT ![a] = Model_load(critic[a], fs[CriticLoadExt])]
    /\ optimizer' = [optimizer EXCEPT ![a] = Optimizer_load(optimizer[a], fs["optimizer"])]
    /\ UNCHANGED <<memory, loss, fs, mpLoss, traj, rets>>

PPO_load(a) ==
    /\ PPO_load_effect(a)
    /\ lastOp' = [op |-> "load", agent |-> a, failed |-> LoadFailed(a)]

\* A second PPOAgent is constructed afresh: PPOAgent.__init__
Construct(a) ==
    /\ memory' = [memory EXCEPT ![a] = DB_reset]
    /\ actor' = [actor EXCEPT ![a] = NewAgentActor(a)]
    /\ critic' = [critic EXCEPT ![a] = NewAgentCritic(a)]
    /\ optimizer' = [optimizer EXCEPT ![a] =
                        NewOptimizer(NewAgentActor(a), NewAgentCritic(a))]
    /\ loss' = [loss EXCEPT ![a] = NoLoss]
    /\ lastOp' = [op |-> "construct", agent |-> a]
    /\ UNCHANGED <<fs, mpLoss, traj, rets>>

\* How a call of PPOAgent.clone can end: its first statement reads
\* self.state_size and self.action_size, which PPOAgent.__init__ does not
\* set, so it raises AttributeError unless the base class Policy or the
\* caller provides them; otherwise it runs to `return self`.
CloneOutcomes == {"raised", "returned"}

\* PPOAgent.clone: the new PPOAgent `policy` receives deep copies of model
\* and optimizer and is dropped; the object returned is the receiver.
PPO_clone(a) ==
    \E outcome \in CloneOutcomes :
        /\ lastOp' = [op |-> "clone", agent |-> a, outcome |-> outcome,
                      ret |-> IF outcome = "returned" THEN a ELSE "none"]
        /\ UNCHANGED <<memory, actor, critic, optimizer, loss, fs, mpLoss, traj, rets>>

\* Checkpoint files that were not written by these agents: an unreadable
\* file, and the actor of a PPO agent built for the raw state (state_size
\* inputs instead of state_size + action_size).
ForeignBlobs == {Garbage, NetBlob(NewActor(StateSize, ActionSize, 9))}

\* Such a file is found at the base path before anything was saved there.
ForeignFile ==
    \E e \in {ActorLoadExt, CriticLoadExt, "optimizer"}, blob \in ForeignBlobs :
        /\ \A x \in Exts : fs[x] = NoFile
        /\ fs' = [fs EXCEPT ![e] = blob]
        /\ lastOp' = [op |-> "file", ext |-> e]
        /\ UNCHANGED <<memory, actor, critic, optimizer, loss, mpLoss, traj, rets>>

\* ------------------------------------------------------------ MultiPolicy
\* MultiPolicy.ppo_policy
Core == "A"

\* DeadLockAvoidanceAgent.act(handle, state, eps): the advisor is an external
\* deterministic heuristic; this instance depends on handle and state.
AdvisorAct(handle, state, eps) == (handle + SumSeq(state)) % ActionSize

\* for action_itr in np.arange(self.action_size):
\*     extended_state = np.append(extended_state, [int(sug == action_itr)])
RECURSIVE AppendOneHot(_, _, _)
AppendOneHot(extended_state, sug, action_itr) ==
    IF action_itr >= ActionSize THEN extended_state
    ELSE AppendOneHot(Append(extended_state, IF sug = action_itr THEN 1 ELSE 0),
                      sug, action_itr + 1)

ExtendedState_Shifted(state, sug) == AppendOneHot(state, sug + 1, 0)

\* extended_state = np.copy(state), then the loop above
ExtendedState(state, sug) == AppendOneHot(state, sug, 0)

\* A call made on one of the two owned policies.
Call(to, method, args) == [to |-> to, method |-> method, args |-> args]
\* ... and one whose result is used.
CallRet(to, method, args, ret) ==
    [to |-> to, method |-> method, args |-> args, ret |-> ret]

\* Exploration rate MultiPolicy passes to the advisor's act.
AdvisorEps == 0

AdvisorStepArgs_Augmented(handle, state, action, reward, next_state, done) ==
    <<handle, ExtendedState(state, AdvisorAct(handle, state, AdvisorEps)),
      action, reward,
      ExtendedState(next_state, AdvisorAct(handle, next_state, AdvisorEps)), done>>

\* What MultiPolicy.step hands to the advisor's step: its own arguments.
AdvisorStepArgs(handle, state, action, reward, next_state, done) ==
    <<handle, state, action, reward, next_state, done>>

\* MultiPolicy.step
MP_step(handle, state, action, reward, next_state, done) ==
    LET action_extra_state == AdvisorAct(handle, state, AdvisorEps)
        action_extra_next_state == AdvisorAct(handle, next_state, AdvisorEps)
        extended_state == ExtendedState(state, action_extra_state)
        extended_next_state == ExtendedState(next_state, action_extra_next_state)
    IN  /\ CanStep(Core)
        /\ memory' = [memory EXCEPT ![Core] =
                        PPO_step_mem(Core, handle, extended_state, action, reward,
                                     extended_next_state, done)]
        /\ lastOp' = [op |-> "mp.step", handle |-> handle, state |-> state,
                      action |-> action, reward |-> reward,
                      next_state |-> next_state, done |-> done,
                      calls |-> <<
                        CallRet("advisor", "act", <<handle, state, AdvisorEps>>,
                                action_extra_state),
                        CallRet("advisor", "act", <<handle, next_state, AdvisorEps>>,
                                action_extra_next_state),
                        Call("advisor", "step",
                             AdvisorStepArgs(handle, state, action, reward,
                                             next_state, done)),
                        Call("ppo", "step",
                             <<handle, extended_state, action, reward,
                               extended_next_state, done>>) >>]
        /\ UNCHANGED <<actor, critic, optimizer, loss, fs, mpLoss, traj, rets>>

ActAdvisorEps_Caller(eps) == eps

\* Exploration rate MultiPolicy.act passes to the advisor's act when its
\* caller asked for eps: the literal 0.0.
ActAdvisorEps(eps) == AdvisorEps

\* MultiPolicy.act
MP_act(handle, state, eps) ==
    LET action_extra_state == AdvisorAct(handle, state, ActAdvisorEps(eps))
        extended_state == ExtendedState(state, action_extra_state)
    IN  \E action_ppo \in Actions :
            /\ get_actor_dist(actor[Core], extended_state)[action_ppo] > 0
            /\ mpLoss' = loss[Core]
            /\ lastOp' = [op |-> "mp.act", handle |-> handle, state |-> state,
                          eps |-> eps, ret |-> action_ppo,
                          calls |-> <<
                            CallRet("advisor", "act",
                                    <<handle, state, ActAdvisorEps(eps)>>,
                                    action_extra_state),
                            CallRet("ppo", "act", <<handle, extended_state, eps>>,
                                    action_ppo) >>]
            /\ UNCHANGED <<memory, actor, critic, optimizer, loss, fs, traj, rets>>

\* MultiPolicy defines no end_episode: the call runs the one inherited from
\* Policy, which knows neither of the two owned policies.
MP_end_episode_calls(train) == <<>>

MP_end_episode(train) ==
    /\ lastOp' = [op |-> "mp.end_episode", train |-> train,
                  calls |-> MP_end_episode_calls(train)]
    /\ UNCHANGED <<memory, actor, critic, optimizer, loss, fs, mpLoss, traj, rets>>

\* The order in which each broadcasting method calls the two owned policies.
Order_load == <<"ppo", "advisor">>
Order_save == <<"ppo", "advisor">>
Order_reset == <<"ppo", "advisor">>
Order_test_Swapped == <<"advisor", "ppo">>
Order_test == <<"ppo", "advisor">>
Order_start_step == <<"advisor", "ppo">>
Order_end_step == <<"advisor", "ppo">>

Broadcast(method, order, args) ==
    [i \in DOMAIN order |-> Call(order[i], method, args)]

\* MultiPolicy.load
MP_load ==
    /\ PPO_load_effect(Core)
    /\ lastOp' = [op |-> "mp.load", calls |-> Broadcast("load", Order_load, <<"P">>)]

\* MultiPolicy.save
MP_save ==
    /\ PPO_save_effect(Core)
    /\ lastOp' = [op |-> "mp.save", calls |-> Broadcast("save", Order_save, <<"P">>)]

\* MultiPolicy.reset; PPOAgent.reset is pass
MP_reset ==
    /\ PPO_reset_effect(Core)
    /\ lastOp' = [op |-> "mp.reset", calls |-> Broadcast("reset", Order_reset, <<>>)]

\* MultiPolicy.test; PPOAgent inherits test from Policy
MP_test ==
    /\ lastOp' = [op |-> "mp.test", calls |-> Broadcast("test", Order_test, <<>>)]
    /\ UNCHANGED <<memory, actor, critic, optimizer, loss, fs, mpLoss, traj, rets>>

\* MultiPolicy.start_step; PPOAgent inherits start_step from Policy
MP_start_step(train) ==
    /\ lastOp' = [op |-> "mp.start_step",
                  calls |-> Broadcast("start_step", Order_start_step, <<train>>)]
    /\ UNCHANGED <<memory, actor, critic, optimizer, loss, fs, mpLoss, traj, rets>>

\* MultiPolicy.end_step; PPOAgent inherits end_step from Policy
MP_end_step(train) ==
    /\ lastOp' = [op |-> "mp.end_step",
                  calls |-> Broadcast("end_step", Order_end_step, <<train>>)]
    /\ UNCHANGED <<memory, actor, critic, optimizer, loss, fs, mpLoss, traj, rets>>

\* ------------------------------------------------------------ environment
Flip(s) == [i \in DOMAIN s |-> 1 - s[i]]
Ones == [i \in 1 .. StateSize |-> 1]

\* What the environment reports for one handle in one tick, with the action
\* that was taken in it; the episode is done when the all-ones state is
\* reached.
EnvTicks ==
    {[state |-> s, action |-> SumSeq(s) % ActionSize,
      reward |-> 1 + (SumSeq(s) % ActionSize), next_state |-> Flip(s),
      done |-> (Flip(s) = Ones)] : s \in RawStates}

\* Exploration rates given to the composed act: 0.0 and 0.5, in tenths.
EpsValues == {0, 5}

\* ---------------------------------------------------------- specifications
InitAgents ==
    /\ memory = [a \in Agents |-> DB_reset]
    /\ actor = [a \in Agents |-> NewAgentActor(a)]
    /\ critic = [a \in Agents |-> NewAgentCritic(a)]
    /\ optimizer = [a \in Agents |->
                      NewOptimizer(NewAgentActor(a), NewAgentCritic(a))]
    /\ loss = [a \in Agents |-> NoLoss]
    /\ fs = [e \in Exts |-> NoFile]
    /\ mpLoss = NoLoss
    /\ lastOp = [op |-> "init"]

Init ==
    /\ InitAgents
    /\ traj = <<>>
    /\ rets = <<>>

\* A direct call of the core's step, with the states MultiPolicy would pass.
CoreStep ==
    \E handle \in Handles, t \in EnvTicks :
        PPO_step(Core, handle,
                 ExtendedState(t.state, AdvisorAct(handle, t.state, AdvisorEps)),
                 t.action, t.reward,
                 ExtendedState(t.next_state, AdvisorAct(handle, t.next_state, AdvisorEps)),
                 t.done)

CoreAct ==
    \E s \in RawStates : PPO_act(Core, ExtendedState(s, AdvisorAct(0, s, AdvisorEps)))

ComposedStep ==
    \E handle \in Handles, t \in EnvTicks :
        MP_step(handle, t.state, t.action, t.reward, t.next_state, t.done)

ComposedAct ==
    \E handle \in Handles, s \in RawStates, eps \in EpsValues : MP_act(handle, s, eps)

ComposedEndEpisode == \E train \in BOOLEAN : MP_end_episode(train)

\* Collecting and training, on the core alone and through MultiPolicy.
Next ==
    \/ CoreStep
    \/ CoreAct
    \/ EndEpisode(Core)
    \/ PPO_reset(Core)
    \/ ComposedStep
    \/ ComposedAct
    \/ ComposedEndEpisode
    \/ MP_reset

Spec == Init /\ [][Next]_vars

\* Saving and restoring checkpoints: the core "A" collects and trains, a
\* second agent "B" is constructed afresh, and both save to and load from
\* the base path P, directly or through MultiPolicy.
CkptStep ==
    \E t \in EnvTicks :
        /\ t.state # Ones
        /\ PPO_step(Core, 0,
                    ExtendedState(t.state, AdvisorAct(0, t.state, AdvisorEps)),
                    t.action, t.reward,
                    ExtendedState(t.next_state, AdvisorAct(0, t.next_state, AdvisorEps)),
                    t.done)

NextCkpt ==
    \/ CkptStep
    \/ EndEpisode(Core)
    \/ \E a \in Agents : PPO_save(a)
    \/ \E a \in Agents : PPO_load(a)
    \/ Construct("B")
    \/ PPO_clone(Core)
    \/ ForeignFile
    \/ MP_load
    \/ MP_save
    \/ MP_reset
    \/ MP_test
    \/ \E train \in BOOLEAN : MP_start_step(train)
    \/ \E train \in BOOLEAN : MP_end_step(train)

SpecCkpt == Init /\ [][NextCkpt]_vars

\* The return computation alone, on every trajectory of at most MaxLen
\* transitions with rewards in Rewards and any done flags.
RetTransitions ==
    {[state |-> ExtendedState(Ones, 0), action |-> 0, reward |-> r,
      next_state |-> ExtendedState(Ones, 0), logprob |-> <<1, ActionSize>>,
      done |-> d] : r \in Rewards, d \in BOOLEAN}

Trajectories == UNION {[1 .. n -> RetTransitions] : n \in 1 .. MaxLen}

InitRet ==
    /\ InitAgents
    /\ traj \in Trajectories
    /\ rets = <<>>

\* _convert_transitions_to_torch_tensors(traj)
Convert ==
    /\ lastOp.op = "init"
    /\ rets' = DiscountedReturns(traj)
    /\ lastOp' = [op |-> "convert"]
    /\ UNCHANGED <<memory, actor, critic, optimizer, loss, fs, mpLoss, traj>>

NextRet == Convert

SpecRet == InitRet /\ [][NextRet]_vars

\* The Trajectory Store on its own: the DataBuffers of the core, called
\* directly with any transition of RetTransitions.
Store_push_transition(handle, transition) ==
    /\ CanStep(Core)
    /\ memory' = [memory EXCEPT ![Core] =
                    DB_push_transition(memory[Core], handle, transition)]
    /\ lastOp' = [op |-> "push_transition", handle |-> handle,
                  transition |-> transition]
    /\ UNCHANGED <<actor, critic, optimizer, loss, fs, mpLoss, traj, rets>>

\* get_transitions returns the sequence; dict.get inserts nothing.
Store_get_transitions(handle) ==
    /\ lastOp' = [op |-> "get_transitions", handle |-> handle,
                  ret |-> DB_get_transitions(memory[Core], handle)]
    /\ UNCHANGED <<memory, actor, critic, optimizer, loss, fs, mpLoss, traj, rets>>

Store_reset ==
    /\ memory' = [memory EXCEPT ![Core] = DB_reset]
    /\ lastOp' = [op |-> "memory.reset"]
    /\ UNCHANGED <<actor, critic, optimizer, loss, fs, mpLoss, traj, rets>>

NextStore ==
    \/ \E handle \in Handles, transition \in RetTransitions :
            Store_push_transition(handle, transition)
    \/ \E handle \in Handles : Store_get_transitions(handle)
    \/ Store_reset

SpecStore == Init /\ [][NextStore]_vars

\* ----------------------------------------------------------------- claims
TrainedJustNow == lastOp.op = "end_episode" /\ lastOp.train

\* C1: when end_episode(train=True) returns, the Trajectory Store holds no
\* handle and get_transitions(h) is empty for every handle h.
C1_StoreEmptyAfterTraining ==
    TrainedJustNow =>
        /\ DB_len(memory[lastOp.agent]) = 0
        /\ \A h \in Handles : DB_get_transitions(memory[lastOp.agent], h) = <<>>

\* A training pass that made gradient steps (so the store held transitions)
\* has returned.
C1_Witness ==
    /\ TrainedJustNow
    /\ \E h \in Handles : lastOp.grads[h] > 0
    /\ DB_len(memory[lastOp.agent]) = 0

\* C2: one end_episode(train=True) makes exactly K_epoch gradient updates on
\* the trajectory of every handle that has a buffered transition.
C2_EveryHandleTrained ==
    [][(lastOp'.op = "end_episode" /\ lastOp'.train) =>
          \A h \in Handles :
              Len(DB_get_transitions(memory[lastOp'.agent], h)) > 0
                  => lastOp'.grads[h] = K_epoch]_vars

\* The done flag is set on the last transition of traj and on no other.
OnlyLastDone(t) == \A i \in 1 .. Len(t) : t[i].done <=> (i = Len(t))

\* sum_{k = i}^{n - 1} gamma^{k - i} * r_k, as a polynomial in gamma
ClaimedReturn(t, i) == Norm([k \in 1 .. (Len(t) - i + 1) |-> t[i + k - 1].reward])

\* C3: for a trajectory whose only done flag is on its last transition, the
\* return computed for step i is sum_{k >= i} gamma^(k - i) * r_k; the
\* return of the done transition is its own reward.
C3_DiscountedReturn ==
    (lastOp.op = "convert" /\ OnlyLastDone(traj)) =>
        \A i \in 1 .. Len(traj) : rets[i] = ClaimedReturn(traj, i)

\* C4: save(P) by one agent followed by load(P) on another gives the loading
\* agent the saved actor parameters, critic parameters and optimizer state.
C4_SaveLoadRestoresAll ==
    [][(lastOp.op = "save" /\ lastOp'.op = "load") =>
          /\ actor'[lastOp'.agent] = actor[lastOp.agent]
          /\ critic'[lastOp'.agent] = critic[lastOp.agent]
          /\ optimizer'[lastOp'.agent] = optimizer[lastOp.agent]]_vars

\* States the core's actor is evaluated on.
CoreStates == {ExtendedState(s, sug) : s \in RawStates, sug \in Actions}

\* C5: save(P) by agent A followed by load(P) on agent B, nothing in between,
\* gives B the actor parameters of A and so A's action distribution at every
\* state.
C5_ActorRoundTrip ==
    [][(lastOp.op = "save" /\ lastOp'.op = "load") =>
          /\ actor'[lastOp'.agent] = actor[lastOp.agent]
          /\ \A s \in CoreStates :
                get_actor_dist(actor'[lastOp'.agent], s)
                    = get_actor_dist(actor[lastOp.agent], s)]_vars

\* The fresh agent B has loaded, and holds, the actor of the trained agent A.
C5_Witness ==
    /\ lastOp.op = "load"
    /\ lastOp.agent = "B"
    /\ actor["B"] = actor["A"]
    /\ actor["A"] # NewAgentActor("A")
    /\ fs["actor"] = NetBlob(actor["A"])

\* C6: load(P) leaves the actor, the critic and the optimizer each unchanged
\* when its file (P.actor, P.critic, P.optimizer) is missing or is reported
\* as failed.
C6_BadCheckpointLeavesState ==
    [][(lastOp'.op = "load") =>
          LET b == lastOp'.agent
              bad(e) == fs[e] = NoFile \/ e \in lastOp'.failed
          IN  /\ bad("actor") => actor'[b] = actor[b]
              /\ bad("critic") => critic'[b] = critic[b]
              /\ bad("optimizer") => optimizer'[b] = optimizer[b]]_vars

\* C7: when end_episode(train=True) of the composed agent returns, the
\* Trajectory Store of its PPO core is empty.
C7_ComposedTrainingEmptiesStore ==
    (lastOp.op = "mp.end_episode" /\ lastOp.train) => DB_len(memory[Core]) = 0

BroadcastOps ==
    {"mp.load", "mp.save", "mp.reset", "mp.test", "mp.start_step", "mp.end_step"}

CalledInOrder(first, second) ==
    /\ Len(lastOp.calls) = 2
    /\ lastOp.calls[1].to = first
    /\ lastOp.calls[2].to = second
    /\ lastOp.calls[1].method = lastOp.calls[2].method
    /\ lastOp.op = "mp." \o lastOp.calls[1].method

\* C8 as stated: every broadcasting method calls the advisor first and the
\* PPO core second.
C8_AdvisorAlwaysFirst ==
    lastOp.op \in BroadcastOps => CalledInOrder("advisor", "ppo")

\* C8 as amended: every broadcasting method calls each owned policy once;
\* start_step and end_step call the advisor first and the PPO core second,
\* load, save, reset and test call the PPO core first and the advisor second.
C8_BroadcastOrder ==
    /\ lastOp.op \in {"mp.start_step", "mp.end_step"}
          => CalledInOrder("advisor", "ppo")
    /\ lastOp.op \in {"mp.load", "mp.save", "mp.reset", "mp.test"}
          => CalledInOrder("ppo", "advisor")

\* test has been broadcast, the PPO core first.
C8_Witness ==
    /\ lastOp.op = "mp.test"
    /\ lastOp.calls[1].to = "ppo"
    /\ lastOp.calls[2].to = "advisor"

\* ext is raw followed by the one-hot encoding of sug.
IsAugmented(ext, raw, sug) ==
    /\ Len(raw) = StateSize
    /\ Len(ext) = StateSize + ActionSize
    /\ SubSeq(ext, 1, StateSize) = raw
    /\ \A k \in Actions : ext[StateSize + 1 + k] \in {0, 1}
    /\ Cardinality({k \in Actions : ext[StateSize + 1 + k] = 1}) = 1
    /\ sug \in Actions
    /\ ext[StateSize + 1 + sug] = 1

\* C9: every augmented state MultiPolicy.act and MultiPolicy.step hand to the
\* PPO core is the raw state followed by action_size entries of which
\* exactly one is 1, at the index the advisor returned for that raw state.
C9_AugmentedState ==
    /\ lastOp.op = "mp.act" =>
          LET adv == lastOp.calls[1]
              ppo == lastOp.calls[2]
          IN  /\ adv.args[2] = lastOp.state
              /\ IsAugmented(ppo.args[2], lastOp.state, adv.ret)
    /\ lastOp.op = "mp.step" =>
          LET adv1 == lastOp.calls[1]
              adv2 == lastOp.calls[2]
              ppo == lastOp.calls[4]
          IN  /\ adv1.args[2] = lastOp.state
              /\ adv2.args[2] = lastOp.next_state
              /\ IsAugmented(ppo.args[2], lastOp.state, adv1.ret)
              /\ IsAugmented(ppo.args[5], lastOp.next_state, adv2.ret)

\* A composed step in which the advisor suggested different actions for
\* state and next_state.
C9_Witness ==
    /\ lastOp.op = "mp.step"
    /\ lastOp.calls[1].ret # lastOp.calls[2].ret
    /\ lastOp.calls[4].args[2] # lastOp.calls[4].args[5]

\* C10: end_episode(train=False) changes neither the Trajectory Store nor
\* the actor, the critic, the optimizer state or the recorded loss.
C10_NoTrainChangesNothing ==
    [][(lastOp'.op = "end_episode" /\ ~lastOp'.train) =>
          UNCHANGED <<memory, actor, critic, optimizer, loss>>]_vars

\* end_episode(train=False) has returned with transitions still buffered.
C10_Witness ==
    /\ lastOp.op = "end_episode"
    /\ ~lastOp.train
    /\ DB_len(memory[lastOp.agent]) > 0

\* C11: push_transition(h, t) appends t at the end of h's sequence, creating
\* it if absent, and leaves every other handle's sequence as it was;
\* get_transitions changes no sequence and reset leaves none, so each
\* sequence is what was pushed for its handle since the last reset, in order.
C11_PushAppendsInOrder ==
    [][/\ lastOp'.op = "push_transition" =>
            LET h == lastOp'.handle
                old == memory[Core]
                new == memory'[Core]
            IN  /\ DOMAIN new = (DOMAIN old) \cup {h}
                /\ new[h] = Append(IF h \in DOMAIN old THEN old[h] ELSE <<>>,
                                   lastOp'.transition)
                /\ \A g \in (DOMAIN old) \ {h} : new[g] = old[g]
       /\ lastOp'.op = "get_transitions" => memory' = memory
       /\ lastOp'.op = "memory.reset" => DOMAIN memory'[Core] = {}]_vars

\* A second, different transition has been pushed for a handle and stands
\* after the first.
C11_Witness ==
    /\ lastOp.op = "push_transition"
    /\ lastOp.handle \in DOMAIN memory[Core]
    /\ Len(memory[Core][lastOp.handle]) = 2
    /\ memory[Core][lastOp.handle][2] = lastOp.transition
    /\ memory[Core][lastOp.handle][1] # lastOp.transition

\* C12: the size of the store is the number of handles holding at least one
\* transition, so a push for a handle without transitions raises it by one
\* and any other push leaves it; get_transitions on a handle the store does
\* not hold returns the empty sequence and changes neither the handles held
\* nor the size.
C12_SizeCountsHandles ==
    [][/\ DB_len(memory'[Core]) =
            Cardinality({h \in Handles :
                            Len(DB_get_transitions(memory'[Core], h)) > 0})
       /\ lastOp'.op = "push_transition" =>
            DB_len(memory'[Core]) =
                DB_len(memory[Core])
                    + (IF DB_get_transitions(memory[Core], lastOp'.handle) = <<>>
                       THEN 1 ELSE 0)
       /\ (lastOp'.op = "get_transitions"
              /\ lastOp'.handle \notin DOMAIN memory[Core]) =>
            /\ lastOp'.ret = <<>>
            /\ DOMAIN memory'[Core] = DOMAIN memory[Core]
            /\ DB_len(memory'[Core]) = DB_len(memory[Core])]_vars

\* get_transitions was called for a handle never pushed to, on a store that
\* holds two transitions of one handle.
C12_Witness ==
    /\ lastOp.op = "get_transitions"
    /\ lastOp.handle \notin DOMAIN memory[Core]
    /\ lastOp.ret = <<>>
    /\ DB_len(memory[Core]) = 1
    /\ \E h \in DOMAIN memory[Core] : Len(memory[Core][h]) = 2

\* The calls of `method` MultiPolicy made on the owned policy `to`.
CallsTo(calls, to, method) ==
    {i \in DOMAIN calls : calls[i].to = to /\ calls[i].method = method}

\* C13: MultiPolicy.step makes exactly one call of the advisor's step, with
\* its own arguments (raw state and next_state), and exactly one call of the
\* PPO core's step, with the same handle, action, reward and done and with
\* state and next_state each augmented by the advisor's suggestion for it;
\* the core's sequence for the handle grows by one transition, which holds
\* what was passed.
C13_StepForwardsBoth ==
    [][lastOp'.op = "mp.step" =>
          LET op == lastOp'
              adv == CallsTo(op.calls, "advisor", "step")
              ppo == CallsTo(op.calls, "ppo", "step")
              sugs == CallsTo(op.calls, "advisor", "act")
              before == DB_get_transitions(memory[Core], op.handle)
              after == DB_get_transitions(memory'[Core], op.handle)
          IN  /\ Cardinality(adv) = 1
              /\ Cardinality(ppo) = 1
              /\ \A i \in adv :
                    op.calls[i].args = <<op.handle, op.state, op.action, op.reward,
                                        op.next_state, op.done>>
              /\ \A i \in ppo :
                    LET args == op.calls[i].args
                    IN  /\ <<args[1], args[3], args[4], args[6]>>
                              = <<op.handle, op.action, op.reward, op.done>>
                        /\ \E j \in sugs :
                              /\ op.calls[j].args[2] = op.state
                              /\ IsAugmented(args[2], op.state, op.calls[j].ret)
                        /\ \E j \in sugs :
                              /\ op.calls[j].args[2] = op.next_state
                              /\ IsAugmented(args[5], op.next_state, op.calls[j].ret)
                        /\ Len(after) = Len(before) + 1
                        /\ <<after[Len(after)].state, after[Len(after)].action,
                              after[Len(after)].reward, after[Len(after)].next_state,
                              after[Len(after)].done>>
                              = <<args[2], args[3], args[4], args[5], args[6]>>]_vars

\* A composed step has recorded the second transition of a handle, with
\* augmented states that differ from the raw ones given to the advisor.
C13_Witness ==
    /\ lastOp.op = "mp.step"
    /\ Len(DB_get_transitions(memory[Core], lastOp.handle)) = 2
    /\ lastOp.calls[3].args[2] = lastOp.state
    /\ lastOp.calls[4].args[2] # lastOp.state
    /\ lastOp.calls[4].args[2] = memory[Core][lastOp.handle][2].state

\* C14: MultiPolicy.act calls the advisor's act once and MultiPolicy.step
\* calls it twice, and every one of these calls passes exploration rate 0,
\* whatever rate the caller gave to the composed act.
C14_AdvisorNeverExplores ==
    LET sugs == CallsTo(lastOp.calls, "advisor", "act")
    IN  /\ lastOp.op = "mp.act" =>
              /\ Cardinality(sugs) = 1
              /\ \A i \in sugs : lastOp.calls[i].args[3] = 0
        /\ lastOp.op = "mp.step" =>
              /\ Cardinality(sugs) = 2
              /\ \A i \in sugs : lastOp.calls[i].args[3] = 0

\* The composed act was called with a positive exploration rate, which
\* reached the PPO core but not the advisor.
C14_Witness ==
    /\ lastOp.op = "mp.act"
    /\ lastOp.eps > 0
    /\ lastOp.calls[2].args[3] = lastOp.eps
    /\ lastOp.calls[1].args[3] = 0

\* C15: a training pass makes no gradient step for a handle without
\* transitions and never records a loss for it; a pass that visits only such
\* handles returns with actor, critic, optimizer and loss as they were; and
\* the pass returns with no handle in the store.
C15_EmptyHandleSkipped ==
    [][(lastOp'.op = "end_episode" /\ lastOp'.train) =>
          LET a == lastOp'.agent
              empty == {h \in Handles :
                          Len(DB_get_transitions(memory[a], h)) = 0}
          IN  /\ \A h \in empty : lastOp'.grads[h] = 0
              /\ loss'[a] # loss[a] => loss'[a].handle \notin empty
              /\ HandleRange(memory[a]) \subseteq empty =>
                    UNCHANGED <<actor, critic, optimizer, loss>>
              /\ DOMAIN memory'[a] = {}]_vars

\* A training pass has returned that visited a handle without transitions.
C15_Witness ==
    /\ TrainedJustNow
    /\ lastOp.skipped # {}
    /\ \A h \in lastOp.skipped : lastOp.grads[h] = 0

\* C16: act, step, end_episode(train=False) and reset leave the actor, the
\* critic and the optimizer state unchanged, and act leaves the Trajectory
\* Store unchanged too; whenever one of the three changes, the call was
\* end_episode(train=True) and its pass made a gradient step.
C16_OnlyTrainingChangesModel ==
    [][/\ (\/ lastOp'.op \in {"act", "step", "reset"}
           \/ (lastOp'.op = "end_episode" /\ ~lastOp'.train))
            => UNCHANGED <<actor, critic, optimizer>>
       /\ lastOp'.op = "act" => UNCHANGED memory
       /\ (actor' # actor \/ critic' # critic \/ optimizer' # optimizer) =>
            /\ lastOp'.op = "end_episode"
            /\ lastOp'.train
            /\ \E h \in Handles : lastOp'.grads[h] > 0]_vars

\* act has returned on a trained agent that holds buffered transitions.
C16_Witness ==
    /\ lastOp.op = "act"
    /\ DB_len(memory[lastOp.agent]) > 0
    /\ actor[lastOp.agent] # NewAgentActor(lastOp.agent)
    /\ optimizer[lastOp.agent].steps > 0

\* C17: for a done transition at position d of a trajectory, the discounted
\* return computed for every position i <= d is the one computed for the
\* trajectory cut after d: it does not depend on the transitions after d.
C17_DoneCutsReturn ==
    lastOp.op = "convert" =>
        \A d \in 1 .. Len(traj) :
            traj[d].done =>
                \A i \in 1 .. d :
                    rets[i] = DiscountedReturns(SubSeq(traj, 1, d))[i]

\* Returns were computed for a trajectory with a done transition in the
\* middle, a rewarded step before it and a rewarded step after it.
C17_Witness ==
    /\ lastOp.op = "convert"
    /\ \E d \in 2 .. (Len(traj) - 1) :
          /\ traj[d].done
          /\ ~traj[d - 1].done /\ traj[d - 1].reward > 0
          /\ ~traj[d + 1].done /\ traj[d + 1].reward > 0
          /\ rets[d + 1] # <<>>
          /\ rets[d - 1] = <<traj[d - 1].reward>>

\* C18: between calls, every transition in the Trajectory Store carries the
\* log-probability its action has at its state under the actor the agent
\* holds now (so the first importance ratio of a pass is 1).
C18_LogprobUnderCurrentActor ==
    \A h \in DOMAIN memory[Core] :
        \A i \in 1 .. Len(memory[Core][h]) :
            LET t == memory[Core][h][i]
            IN  t.logprob = log_prob(get_actor_dist(actor[Core], t.state), t.action)

\* Two transitions are buffered by an agent whose actor has been trained.
C18_Witness ==
    /\ lastOp.op \in {"step", "mp.step"}
    /\ actor[Core] # NewAgentActor(Core)
    /\ CountTrans(memory[Core], DOMAIN memory[Core]) = 2
    /\ \E h \in DOMAIN memory[Core] :
          memory[Core][h][1].logprob
              # log_prob(get_actor_dist(NewAgentActor(Core), memory[Core][h][1].state),
                         memory[Core][h][1].action)

\* Some transition the core's store held is no longer in it.
Discarded ==
    \E h \in DOMAIN memory[Core] :
        LET old == memory[Core][h]
            new == DB_get_transitions(memory'[Core], h)
        IN  Len(new) < Len(old) \/ SubSeq(new, 1, Len(old)) # old

\* C19: PPOAgent.reset, called directly or by MultiPolicy.reset, changes
\* neither the Trajectory Store nor actor, critic, optimizer or loss; a
\* buffered transition leaves the store only in end_episode(train=True).
C19_ResetKeepsStore ==
    [][/\ lastOp'.op \in {"reset", "mp.reset"} =>
            UNCHANGED <<memory, actor, critic, optimizer, loss>>
       /\ Discarded => (lastOp'.op = "end_episode" /\ lastOp'.train)]_vars

\* MultiPolicy.reset has called the core's reset while two transitions were
\* buffered, and they are still there.
C19_Witness ==
    /\ lastOp.op = "mp.reset"
    /\ \E i \in DOMAIN lastOp.calls :
          lastOp.calls[i].to = "ppo" /\ lastOp.calls[i].method = "reset"
    /\ CountTrans(memory[Core], DOMAIN memory[Core]) = 2

\* C20: clone returns an agent other than the receiver, and a step or an
\* end_episode(train=True) made on the returned agent right after leaves
\* the receiver's Trajectory Store, actor, critic and optimizer unchanged.
C20_CloneIsIndependent ==
    [][/\ lastOp'.op = "clone" =>
            /\ lastOp'.outcome = "returned"
            /\ lastOp'.ret \in Agents \ {lastOp'.agent}
       /\ (/\ lastOp.op = "clone"
           /\ lastOp.outcome = "returned"
           /\ lastOp'.op \in {"step", "end_episode"}
           /\ lastOp'.agent = lastOp.ret) =>
            /\ memory'[lastOp.agent] = memory[lastOp.agent]
            /\ actor'[lastOp.agent] = actor[lastOp.agent]
            /\ critic'[lastOp.agent] = critic[lastOp.agent]
            /\ optimizer'[lastOp.agent] = optimizer[lastOp.agent]]_vars

====
